---- MODULE Spec2Model ----
(***************************************************************************)
(* API_Toolkits: the rate-limited request dispatcher                       *)
(* (api_toolkits/base_client.py, BaseAPIClient._make_request, decorated    *)
(* with ratelimit's @sleep_and_retry @limits(calls=1, period=1)) and the   *)
(* provider clients built on it.                                           *)
(*                                                                         *)
(* Time is a discrete clock of TicksPerSecond ticks per second.  The       *)
(* limiter object is created once, when the class body of BaseAPIClient is *)
(* executed, and is therefore shared by every subclass and every instance. *)
(*                                                                         *)
(* The streaming session of TwelveDataClient                               *)
(* (api_toolkits/twelvedata_toolkit/td_client.py: connect_websocket,       *)
(* subscribe, unsubscribe, start_websocket, close_websocket) is modelled   *)
(* as asyncio tasks that run from one await to the next.                   *)
(***************************************************************************)
EXTENDS Integers, Sequences, FiniteSets, TLC

\* ------------------------------------------------------------------ bounds
TicksPerSecond == 2
MaxTime == 4
MaxCalls == 2
SerialTime == 12
SerialCalls == 6

\* ------------------------------------------------------- program constants
calls == 1
period == 1
FINNHUB_RATE_LIMIT == 60
ALPHAVANTAGE_RATE_LIMIT == 5
TWELVEDATA_RATE_LIMIT == 8

Callers == {"t1", "t2"}
NoOne == "none"
Never == 0 - 1

Clients == {"FinnhubClient", "AlphaVantageClient", "TwelveDataClient"}

\* The client object each caller holds: the sessions the model runs.
Sessions ==
    { [t \in Callers |-> IF t = "t1" THEN "FinnhubClient" ELSE "AlphaVantageClient"],
      [t \in Callers |-> "AlphaVantageClient"],
      [t \in Callers |-> IF t = "t1" THEN "AlphaVantageClient" ELSE "TwelveDataClient"] }

\* BaseAPIClient.__init__ stores calls_per_minute; each subclass passes its own.
calls_per_minute(c) ==
    CASE c = "FinnhubClient" -> FINNHUB_RATE_LIMIT
      [] c = "AlphaVantageClient" -> ALPHAVANTAGE_RATE_LIMIT
      [] c = "TwelveDataClient" -> TWELVEDATA_RATE_LIMIT

\* Request methods.  get_quote stands for every method that returns
\* self._make_request(...); the three AlphaVantage CSV methods call
\* self.session.get(...) themselves.
DirectMethods == {"get_listing_status", "get_earnings_calendar", "get_ipo_calendar"}
Methods(c) == IF c = "AlphaVantageClient" THEN {"get_quote"} \cup DirectMethods
              ELSE {"get_quote"}

\* Whether a request method goes through _make_request (and so the limiter).
UsesMakeRequest(m) == m \notin DirectMethods

\* limits.__init__: clamped_calls = max(1, min(sys.maxsize, floor(calls)))
clamped_calls == IF calls < 1 THEN 1 ELSE calls

\* The decorator's period, in ticks.
PeriodTicks == period * TicksPerSecond
MinuteTicks == 60 * TicksPerSecond

\* ------------------------------------------------------------- transport
Statuses == {200, 304, 500}
\* Response bodies, by what json and csv make of the text: JSON or not, and
\* read by csv or rejected by it (a bare carriage return inside a line, a
\* field above csv's field size limit).
Bodies == {"json", "json_badcsv", "text", "badcsv"}

\* response.json() decodes the body.
IsJson(body) == body \in {"json", "json_badcsv"}

\* csv.DictReader reads the body to its end.
CsvReads(body) == body \in {"json", "text"}
ConnectionError == [status |-> 0, body |-> "none"]

\* Response.raise_for_status: HTTPError for 400 <= status < 600 only.
RaisesForStatus(status) == status >= 400 /\ status < 600

\* The answers of the transport that the runs draw from.  The body of a
\* response raise_for_status rejects is never read, so one body stands for all.
Responses ==
    {r \in [status : Statuses, body : Bodies] : RaisesForStatus(r.status) => r.body = "json"}

\* An except clause that logs the error and does not raise it again: the
\* method then returns None.
MakeRequestOutcomeSwallowing(r) ==
    IF r = ConnectionError THEN "payload"
    ELSE IF RaisesForStatus(r.status) THEN "HTTPError"
    ELSE IF IsJson(r.body) THEN "payload"
    ELSE "JSONDecodeError"

\* The outcome of the try block of _make_request for one transport result.
MakeRequestOutcome(r) ==
    IF r = ConnectionError THEN "ConnectionError"
    ELSE IF RaisesForStatus(r.status) THEN "HTTPError"
    ELSE IF IsJson(r.body) THEN "payload"
    ELSE "JSONDecodeError"

\* The outcome of a direct CSV method: raise_for_status, then
\* list(csv.DictReader(StringIO(response.text))), which raises csv.Error for
\* a text csv cannot read.
DirectOutcome(r) ==
    IF r = ConnectionError THEN "ConnectionError"
    ELSE IF RaisesForStatus(r.status) THEN "HTTPError"
    ELSE IF ~CsvReads(r.body) THEN "csv.Error"
    ELSE "payload"

Outcome(m, r) == IF UsesMakeRequest(m) THEN MakeRequestOutcome(r) ELSE DirectOutcome(r)

NoResult == [status |-> 0, body |-> "none", kind |-> "none"]

VARIABLES
    now,              \* the clock (time.monotonic), in ticks
    last_reset,       \* RateLimitDecorator.last_reset
    num_calls,        \* RateLimitDecorator.num_calls
    lock,             \* RateLimitDecorator.lock: its holder, or NoOne
    pc,               \* each caller's position
    client,           \* the client object each caller holds
    method,           \* the request method each caller is in
    period_remaining, \* each caller's local period_remaining
    wake,             \* when each sleeping caller's time.sleep ends
    result,           \* what the call returned or raised
    grantLog,         \* history: the slots granted, in order
    resets,           \* history: how many times the window was reset
    ncalls,           \* history: calls started by each caller
    deniedIn,         \* history: the window in which the caller was last denied
    firstStart,       \* history: when the first call of a serial run started
    sent              \* history: transport calls made for the caller's current call

\* ---------------------------------------------------- the streaming session
\* One TwelveDataClient (twelvedata_toolkit/td_client.py) used by two asyncio
\* tasks: one runs start_websocket, the other calls connect_websocket,
\* subscribe, unsubscribe and close_websocket.  A task runs without
\* interruption from one await to the next.

\* Bounds of the recorded runs.
MaxConns == 2
MaxMsgs == 2
MaxErrs == 2
MaxOps == 1
MaxStarts == 1
SubOps == 2
LifeOps == 3

\* self.ws = None
NoConn == 0
Conns == 1 .. MaxConns

\* Text is a sequence of characters; a symbol is a text without a comma.
Comma == ","
Ticker1 == <<"A", "B">>
Ticker2 == <<"C">>

\* The symbols argument of subscribe, unsubscribe and start_websocket:
\* Union[str, List[str]].
StrArg(s) == [kind |-> "str", str |-> s, list |-> <<>>]
ListArg(l) == [kind |-> "list", str |-> <<>>, list |-> l]
NoArg == [kind |-> "none", str |-> <<>>, list |-> <<>>]

\* The arguments the callers choose from.
Args == {StrArg(Ticker1), ListArg(<<>>), ListArg(<<Ticker2>>), ListArg(<<Ticker1, Ticker2>>)}

\* A client that joins whatever it is given: a str is iterated by character.
NormalizeUnwrapped(arg) ==
    IF arg.kind = "str" THEN [i \in 1 .. Len(arg.str) |-> <<arg.str[i]>>] ELSE arg.list

\* if isinstance(symbols, str): symbols = [symbols]
Normalize(arg) == IF arg.kind = "str" THEN <<arg.str>> ELSE arg.list

\* A join without the separator.
RECURSIVE JoinUnseparated(_)
JoinUnseparated(list) ==
    IF list = <<>> THEN <<>>
    ELSE IF Len(list) = 1 THEN list[1]
    ELSE list[1] \o JoinUnseparated(Tail(list))

\* ",".join(symbols)
RECURSIVE Join(_)
Join(list) ==
    IF list = <<>> THEN <<>>
    ELSE IF Len(list) = 1 THEN list[1]
    ELSE list[1] \o <<Comma>> \o Join(Tail(list))

\* message = {"action": ..., "params": {"symbols": ",".join(symbols)}}
ControlMessage(action, arg) ==
    [action |-> action, params |-> [symbols |-> Join(Normalize(arg))]]

VARIABLES
    ws,          \* self.ws: NoConn or the connection
    running,     \* self._running
    conn,        \* each connection: "unopened", "open", "peer_closed" or "closed"
    inbox,       \* each connection: the messages that arrived and were not received yet
    spc,         \* the position of the task in start_websocket
    sws,         \* the connection its pending send, recv or close was called on
    on_error,    \* whether start_websocket was given an on_error callback
    outcome,     \* how start_websocket ends: "returned" or the exception it raises
    cpc,         \* the position of the other task
    cop,         \* the method the other task is in
    cws,         \* the connection its pending send or close was called on
    symbols,     \* the symbols argument of start_websocket
    carg,        \* the symbols argument of the other task's call
    scope,       \* what the callers of the run may do: their arguments, their calls
    recording,   \* whether the run records its history
    recvLog,     \* history: the messages recv() returned to the loop, in order
    delivered,   \* history: the messages passed to on_message, in order
    errors,      \* history: the exceptions caught by the loop, and where each went
    sentCtl,     \* history: the control messages sent, in order
    nops,        \* history: calls made by the other task
    nstarts,     \* history: calls of start_websocket
    stopAt,      \* history: how many messages were delivered when stop was requested
    dials,       \* history: calls of websockets.connect by start_websocket
    callLog,     \* history: the calls made by the other task, in order
    stopConns    \* history: how many connections had been opened when the loop was stopped

sessvars == <<ws, running, conn, inbox, spc, sws, on_error, outcome, cpc, cop, cws,
              symbols, carg>>
wshist == <<recvLog, delivered, errors, sentCtl, nops, nstarts, stopAt, dials,
            callLog, stopConns>>
wsvars == <<sessvars, recording, scope, wshist>>

\* TwelveDataClient.__init__: self.ws = None, self._running = False.
SessionInit ==
    /\ ws = NoConn
    /\ running = FALSE
    /\ conn = [c \in Conns |-> "unopened"]
    /\ inbox = [c \in Conns |-> <<>>]
    /\ spc = "idle"
    /\ sws = NoConn
    /\ on_error = FALSE
    /\ outcome = "none"
    /\ cpc = "idle"
    /\ cop = NoOne
    /\ cws = NoConn
    /\ recvLog = <<>>
    /\ delivered = <<>>
    /\ errors = <<>>
    /\ sentCtl = <<>>
    /\ nops = 0
    /\ nstarts = 0
    /\ stopAt = Never
    /\ dials = 0
    /\ symbols = NoArg
    /\ carg = NoArg
    /\ callLog = <<>>
    /\ stopConns = Never


histvars == <<grantLog, resets, ncalls, deniedIn, firstStart, sent>>
vars == <<now, last_reset, num_calls, lock, pc, client, method,
          period_remaining, wake, result, grantLog, resets, ncalls, deniedIn,
          firstStart, sent, wsvars>>

\* The limiter is created when base_client.py is imported (time 0 of the model);
\* the callers then hold their client objects.
LimiterInit ==
    /\ now = 0
    /\ last_reset = 0
    /\ num_calls = 0
    /\ lock = NoOne
    /\ pc = [t \in Callers |-> "idle"]
    /\ client \in Sessions
    /\ method = [t \in Callers |-> NoOne]
    /\ period_remaining = [t \in Callers |-> 0]
    /\ wake = [t \in Callers |-> 0]
    /\ result = [t \in Callers |-> NoResult]
    /\ grantLog = <<>>
    /\ resets = 0
    /\ ncalls = [t \in Callers |-> 0]
    /\ deniedIn = [t \in Callers |-> Never]
    /\ firstStart = Never
    /\ sent = [t \in Callers |-> 0]

\* The symbols text read back: the texts between the commas.
RECURSIVE Split(_)
Split(text) ==
    IF \A i \in DOMAIN text : text[i] # Comma THEN <<text>>
    ELSE LET i == CHOOSE j \in DOMAIN text :
                      text[j] = Comma /\ \A k \in 1 .. j - 1 : text[k] # Comma
         IN  <<SubSeq(text, 1, i - 1)>> \o Split(SubSeq(text, i + 1, Len(text)))

Range(seq) == {seq[i] : i \in DOMAIN seq}

\* The symbols a control message names; an empty text names none.
SymbolsOf(msg) == {t \in Range(Split(msg.params.symbols)) : t # <<>>}

\* What the callers of a session do unless a specification says otherwise:
\* they pass one list of symbols, and the other task makes MaxOps calls, of
\* which no log is kept.
FewCalls == [args |-> {ListArg(<<Ticker1, Ticker2>>)}, ops |-> MaxOps, log |-> FALSE]

\* The state after construction; the runs from it record their history.
Init ==
    /\ LimiterInit
    /\ SessionInit
    /\ recording = TRUE
    /\ scope = FewCalls

\* ---------------------------------------------------------------- actions

\* The clock advances, up to the horizon of the run.
Advance(horizon) ==
    /\ now < horizon
    /\ now' = now + 1
    /\ UNCHANGED <<last_reset, num_calls, lock, pc, client, method,
                   period_remaining, wake, result>>

Tick == Advance(MaxTime)

\* A caller invokes request method m of its client.
Call(t, m) ==
    /\ pc[t] = "idle"
    /\ method' = [method EXCEPT ![t] = m]
    /\ pc' = [pc EXCEPT ![t] = IF UsesMakeRequest(m) THEN "acquire" ELSE "transport"]
    /\ UNCHANGED <<now, last_reset, num_calls, lock, client, period_remaining, wake, result>>

\* The critical section without mutual exclusion.
LockFreeUnguarded(t) == TRUE

\* Whether caller t may enter the limiter's critical section.
LockFree(t) == lock = NoOne

\* limits wrapper: with self.lock: period_remaining = self.__period_remaining(),
\* that is period - (clock() - last_reset)
Enter(t) ==
    /\ pc[t] = "acquire"
    /\ LockFree(t)
    /\ lock' = t
    /\ period_remaining' = [period_remaining EXCEPT ![t] = PeriodTicks - (now - last_reset)]
    /\ pc' = [pc EXCEPT ![t] = "locked"]
    /\ UNCHANGED <<now, last_reset, num_calls, client, method, wake, result>>

\* Whether the window has elapsed.
WindowElapsed(t) == period_remaining[t] <= 0

\* num_calls after the reset, if any, and the increment.
Counted(t) == IF WindowElapsed(t) THEN 1 ELSE num_calls + 1

\* The comparison off by one, refusing the window's last slot.
TooManyCallsStrict(n) == n >= clamped_calls

\* The comparison off by one, granting one slot too many.
TooManyCallsLenient(n) == n > clamped_calls + 1

\* Whether the counted call exceeds the window's maximum.
TooManyCalls(n) == n > clamped_calls

\* limits wrapper, the rest of the with block:
\*   if period_remaining <= 0: num_calls = 0; last_reset = clock()
\*   num_calls += 1
\*   if num_calls > clamped_calls: raise RateLimitException(.., period_remaining)
\* The lock is released either way.  sleep_and_retry catches the exception and
\* calls time.sleep(period_remaining); otherwise the wrapped function runs.
Leave(t) ==
    /\ pc[t] = "locked"
    /\ last_reset' = IF WindowElapsed(t) THEN now ELSE last_reset
    /\ num_calls' = Counted(t)
    /\ lock' = IF lock = t THEN NoOne ELSE lock
    /\ IF TooManyCalls(Counted(t))
       THEN /\ pc' = [pc EXCEPT ![t] = "sleeping"]
            /\ wake' = [wake EXCEPT ![t] = now + period_remaining[t]]
       ELSE /\ pc' = [pc EXCEPT ![t] = "transport"]
            /\ UNCHANGED wake
    /\ period_remaining' = [period_remaining EXCEPT ![t] = 0]
    /\ UNCHANGED <<now, client, method, result>>

\* sleep_and_retry: time.sleep(exception.period_remaining) is over; retry.
Wake(t) ==
    /\ pc[t] = "sleeping"
    /\ now >= wake[t]
    /\ wake' = [wake EXCEPT ![t] = 0]
    /\ pc' = [pc EXCEPT ![t] = "acquire"]
    /\ UNCHANGED <<now, last_reset, num_calls, lock, client, method,
                   period_remaining, result>>

\* A dispatcher that issues the request again when the transport call failed.
AfterResponseRetry(kind) == IF kind = "ConnectionError" THEN "transport" ELSE "returned"

\* Where the method goes once session.request has answered or raised: the
\* value is returned, or the exception logged and raised again; there is no loop
\* around the transport call.
AfterResponse(kind) == "returned"

\* The transport call answers (or fails), and the method classifies the answer.
Respond(t, r) ==
    /\ pc[t] = "transport"
    /\ result' = [result EXCEPT ![t] = [status |-> r.status, body |-> r.body,
                                        kind |-> Outcome(method[t], r)]]
    /\ pc' = [pc EXCEPT ![t] = AfterResponse(Outcome(method[t], r))]
    /\ UNCHANGED <<now, last_reset, num_calls, lock, client, method,
                   period_remaining, wake>>

\* The caller has its value or exception.
Return(t) ==
    /\ pc[t] = "returned"
    /\ result' = [result EXCEPT ![t] = NoResult]
    /\ method' = [method EXCEPT ![t] = NoOne]
    /\ pc' = [pc EXCEPT ![t] = "idle"]
    /\ UNCHANGED <<now, last_reset, num_calls, lock, client, period_remaining, wake>>

\* ---------------------------------------------------------------- history

\* The record of a granted slot: who, for which client and call, when, in which
\* limiter window (its last_reset), as which of the window's counted calls,
\* after how many resets, and whether the call had to sleep first.
Grant(t) ==
    [caller |-> t, client |-> client[t], call |-> ncalls[t], time |-> now,
     window |-> IF WindowElapsed(t) THEN now ELSE last_reset,
     slot |-> Counted(t),
     resets |-> IF WindowElapsed(t) THEN resets + 1 ELSE resets,
     delayed |-> deniedIn[t] # Never]

CallHist(t) ==
    /\ ncalls[t] < MaxCalls
    /\ ncalls' = [ncalls EXCEPT ![t] = ncalls[t] + 1]
    /\ sent' = [sent EXCEPT ![t] = 0]
    /\ UNCHANGED <<grantLog, resets, deniedIn, firstStart>>

LeaveHist(t) ==
    /\ resets' = IF WindowElapsed(t) THEN resets + 1 ELSE resets
    /\ IF TooManyCalls(Counted(t))
       THEN /\ deniedIn' = [deniedIn EXCEPT ![t] = last_reset']
            /\ UNCHANGED grantLog
       ELSE /\ grantLog' = Append(grantLog, Grant(t))
            /\ deniedIn' = [deniedIn EXCEPT ![t] = Never]
    /\ UNCHANGED <<ncalls, firstStart, sent>>

\* One more call of session.request (or session.get) for the caller's call.
RespondHist(t) ==
    /\ sent' = [sent EXCEPT ![t] = sent[t] + 1]
    /\ UNCHANGED <<grantLog, resets, ncalls, deniedIn, firstStart>>

Next ==
    \/ Tick /\ UNCHANGED histvars /\ UNCHANGED wsvars
    \/ \E t \in Callers : \E m \in Methods(client[t]) : Call(t, m) /\ CallHist(t) /\ UNCHANGED wsvars
    \/ \E t \in Callers : Enter(t) /\ UNCHANGED histvars /\ UNCHANGED wsvars
    \/ \E t \in Callers : Leave(t) /\ LeaveHist(t) /\ UNCHANGED wsvars
    \/ \E t \in Callers : Wake(t) /\ UNCHANGED histvars /\ UNCHANGED wsvars
    \/ \E t \in Callers : \E r \in Responses \cup {ConnectionError} : Respond(t, r) /\ RespondHist(t) /\ UNCHANGED wsvars
    \/ \E t \in Callers : Return(t) /\ UNCHANGED histvars /\ UNCHANGED wsvars

Spec == Init /\ [][Next]_vars

\* ------------------------------------------------------------ serial runs
\* One caller issuing calls back to back through _make_request of one client,
\* against a transport that always answers 200 with a JSON body.

Ok200 == [status |-> 200, body |-> "json"]

SerialCaller == "t1"

SerialInit == Init /\ client = [t \in Callers |-> "AlphaVantageClient"]

SerialCallHist(t) ==
    /\ ncalls[t] < SerialCalls
    /\ ncalls' = [ncalls EXCEPT ![t] = ncalls[t] + 1]
    /\ firstStart' = IF firstStart = Never THEN now ELSE firstStart
    /\ sent' = [sent EXCEPT ![t] = 0]
    /\ UNCHANGED <<grantLog, resets, deniedIn>>

SerialNext ==
    \/ Advance(SerialTime) /\ UNCHANGED histvars /\ UNCHANGED wsvars
    \/ Call(SerialCaller, "get_quote") /\ SerialCallHist(SerialCaller) /\ UNCHANGED wsvars
    \/ Enter(SerialCaller) /\ UNCHANGED histvars /\ UNCHANGED wsvars
    \/ Leave(SerialCaller) /\ LeaveHist(SerialCaller) /\ UNCHANGED wsvars
    \/ Wake(SerialCaller) /\ UNCHANGED histvars /\ UNCHANGED wsvars
    \/ Respond(SerialCaller, Ok200) /\ RespondHist(SerialCaller) /\ UNCHANGED wsvars
    \/ Return(SerialCaller) /\ UNCHANGED histvars /\ UNCHANGED wsvars

SerialSpec == SerialInit /\ [][SerialNext]_vars

\* ------------------------------------------------------------- long runs
\* Callers of one client that may call get_quote for ever.  The limiter reads
\* the clock only through differences (clock() - last_reset, and the end of a
\* sleep), so when the clock is at MaxTime a tick moves every stored time one
\* tick into the past instead: the same behaviour, in a finite state space.
\* The history is not recorded in these runs.

Earlier(time) == IF time > 0 THEN time - 1 ELSE 0

LiveTick ==
    /\ now' = IF now < MaxTime THEN now + 1 ELSE now
    /\ last_reset' = IF now < MaxTime THEN last_reset ELSE Earlier(last_reset)
    /\ wake' = [t \in Callers |-> IF now < MaxTime THEN wake[t] ELSE Earlier(wake[t])]
    /\ UNCHANGED <<num_calls, lock, pc, client, method, period_remaining, result>>

LiveInit == Init /\ client = [t \in Callers |-> "AlphaVantageClient"]

\* What a caller does on its own once it is past the lock: scheduling lets
\* every thread run, and lets a thread that is ready for the lock again and
\* again have it.
LiveStep(t) == Leave(t) \/ Wake(t) \/ Respond(t, Ok200) \/ Return(t)

LiveNext ==
    \/ LiveTick /\ UNCHANGED histvars /\ UNCHANGED wsvars
    \/ \E t \in Callers : Call(t, "get_quote") /\ UNCHANGED histvars /\ UNCHANGED wsvars
    \/ \E t \in Callers : Enter(t) /\ UNCHANGED histvars /\ UNCHANGED wsvars
    \/ \E t \in Callers : LiveStep(t) /\ UNCHANGED histvars /\ UNCHANGED wsvars

LiveSpec ==
    /\ LiveInit
    /\ [][LiveNext]_vars
    /\ WF_vars(LiveTick /\ UNCHANGED <<histvars, wsvars>>)
    /\ \A t \in Callers : WF_vars(LiveStep(t) /\ UNCHANGED <<histvars, wsvars>>)
    /\ \A t \in Callers : SF_vars(Enter(t) /\ UNCHANGED <<histvars, wsvars>>)

\* The steps of a caller that are the program's own.  session.request is called
\* without timeout=, so the only step that ends the wait for the transport is
\* the transport's answer, which nothing obliges the remote side to give.
OwnStep(t) == Leave(t) \/ Wake(t) \/ Return(t)

\* The long runs over a transport that may never answer: the clock and the
\* program's own steps are scheduled fairly, the answer is not.
HangSpec ==
    /\ LiveInit
    /\ [][LiveNext]_vars
    /\ WF_vars(LiveTick /\ UNCHANGED <<histvars, wsvars>>)
    /\ \A t \in Callers : WF_vars(OwnStep(t) /\ UNCHANGED <<histvars, wsvars>>)
    /\ \A t \in Callers : SF_vars(Enter(t) /\ UNCHANGED <<histvars, wsvars>>)

\* ---------------------------------------------------- the streaming session

WsInit == Init /\ client = [t \in Callers |-> "AlphaVantageClient"]

limvars == <<now, last_reset, num_calls, lock, pc, client, method,
             period_remaining, wake, result, histvars>>

\* A history value: recorded if the run records, left as it was otherwise.
Rec(old, new) == IF recording THEN new ELSE old

\* The part of the state start_websocket works on.
Here ==
    [ws |-> ws, running |-> running, conn |-> conn, spc |-> spc, sws |-> sws,
     outcome |-> outcome, errors |-> errors]

Becomes(st) ==
    /\ Len(st.errors) <= MaxErrs
    /\ ws' = st.ws
    /\ running' = st.running
    /\ conn' = st.conn
    /\ spc' = st.spc
    /\ sws' = st.sws
    /\ outcome' = st.outcome
    /\ errors' = st.errors

\* The connection a successful websockets.connect returns.
Fresh == CHOOSE c \in Conns : /\ conn[c] = "unopened"
                              /\ \A d \in Conns : d < c => conn[d] # "unopened"
CanOpen == \E c \in Conns : conn[c] = "unopened"

\* finally: await self.close_websocket(), up to its await:
\*   self._running = False; if self.ws: await self.ws.close()
\* how is what start_websocket does once the teardown is over.
Finally(st, how) ==
    LET off == [st EXCEPT !.running = FALSE, !.outcome = how]
    IN  IF st.ws # NoConn
        THEN [off EXCEPT !.conn[st.ws] = "closed", !.sws = st.ws, !.spc = "closing"]
        ELSE [off EXCEPT !.sws = NoConn, !.spc = "done"]

\* An exception caught by the loop goes to on_error or to print.
Report(st, kind, msg, to) ==
    [st EXCEPT !.errors = Rec(@, Append(@, [kind |-> kind, conn |-> st.sws,
                                            msg |-> msg, to |-> to]))]

\* while self._running: ... message = await self.ws.recv()
\* With self.ws None the attribute access raises inside the try; without an
\* on_error the loop then prints and comes back here without ever awaiting.
LoopCheck(st) ==
    IF ~st.running THEN Finally(st, "returned")
    ELSE IF st.ws = NoConn
         THEN IF on_error
              THEN [Report([st EXCEPT !.sws = NoConn], "AttributeError", 0, "on_error")
                        EXCEPT !.spc = "on_error"]
              ELSE [Report([st EXCEPT !.sws = NoConn], "AttributeError", 0, "print")
                        EXCEPT !.spc = "spin"]
    ELSE [st EXCEPT !.spc = "recv", !.sws = st.ws]

\* except Exception as e: if on_error: await on_error(e) else: print(...)
Handle(st, kind, msg) ==
    IF on_error
    THEN [Report(st, kind, msg, "on_error") EXCEPT !.spc = "on_error"]
    ELSE LoopCheck(Report(st, kind, msg, "print"))

\* A loop that stops once on_error has returned.
AfterOnErrorBreak(st) == Finally(st, "returned")

\* on_error has returned: the except clause is over and the while condition
\* is tested again.
AfterOnError(st) == LoopCheck(st)

\* A loop that passes the newest message first.
DeliverNewestFirst(log, id) == <<id>> \o log

\* await on_message(data): the call is recorded when it is made.
Deliver(log, id) == Append(log, id)

\* The message on_message was last called with.
Current == IF delivered = <<>> THEN 0 ELSE delivered[Len(delivered)]

\* Whether a start_websocket call is in progress.
InSession == spc \notin {"idle", "done"}

\* Whether start_websocket is in its receive loop.
InLoop == spc \in {"recv", "on_message", "on_error", "spin"}

\* How many connections websockets.connect has returned.
Opened == Cardinality({c \in Conns : conn[c] # "unopened"})

\* -------------------------------------------------- start_websocket's task

\* start_websocket(symbols, on_message, on_error) is called: try, then
\* connect_websocket, which returns at once if self.ws is set (subscribe then
\* calls self.ws.send) and awaits websockets.connect otherwise.
StartWebsocket(s, h) ==
    /\ spc \in {"idle", "done"}
    /\ recording => nstarts < MaxStarts
    /\ symbols' = s
    /\ on_error' = h
    /\ outcome' = "none"
    /\ IF ws # NoConn
       THEN spc' = "sending" /\ sws' = ws
       ELSE spc' = "connecting" /\ sws' = NoConn
    /\ nstarts' = Rec(nstarts, nstarts + 1)
    /\ dials' = Rec(dials, IF ws # NoConn THEN 0 ELSE 1)
    /\ stopAt' = Never
    /\ stopConns' = Never
    /\ recvLog' = <<>>
    /\ delivered' = <<>>
    /\ errors' = <<>>
    /\ sentCtl' = <<>>
    /\ UNCHANGED <<ws, running, conn, inbox, cpc, cop, carg, cws, recording, scope, nops, callLog>>

\* websockets.connect returns: self.ws = ..., self._running = True, and
\* subscribe, finding self.ws set, calls self.ws.send.
StartConnected ==
    /\ spc = "connecting"
    /\ CanOpen
    /\ conn' = [conn EXCEPT ![Fresh] = "open"]
    /\ ws' = Fresh
    /\ running' = TRUE
    /\ spc' = "sending"
    /\ sws' = Fresh
    /\ UNCHANGED <<inbox, on_error, symbols, outcome, cpc, cop, carg, cws, recording, scope, wshist>>

\* websockets.connect raises: the exception leaves the try through finally.
StartConnectFailed ==
    /\ spc = "connecting"
    /\ Becomes(Finally(Here, "ConnectError"))
    /\ UNCHANGED <<inbox, on_error, symbols, cpc, cop, carg, cws, recording, scope>>
    /\ UNCHANGED <<recvLog, delivered, sentCtl, nops, callLog, nstarts, stopAt, stopConns, dials>>

\* The subscribe message is sent; the loop condition is tested.
StartSent ==
    /\ spc = "sending"
    /\ conn[sws] = "open"
    /\ sentCtl' = Rec(sentCtl, Append(sentCtl, [by |-> "start", conn |-> sws, arg |-> symbols,
                                                msg |-> ControlMessage("subscribe", symbols)]))
    /\ Becomes(LoopCheck(Here))
    /\ UNCHANGED <<inbox, on_error, symbols, cpc, cop, carg, cws, recording, scope>>
    /\ UNCHANGED <<recvLog, delivered, nops, callLog, nstarts, stopAt, stopConns, dials>>

\* send raises ConnectionClosed, outside the loop's try.
StartSendFailed ==
    /\ spc = "sending"
    /\ conn[sws] # "open"
    /\ Becomes(Finally(Here, "ConnectionClosed"))
    /\ UNCHANGED <<inbox, on_error, symbols, cpc, cop, carg, cws, recording, scope>>
    /\ UNCHANGED <<recvLog, delivered, sentCtl, nops, callLog, nstarts, stopAt, stopConns, dials>>

\* recv returns the next message of the connection, the next of the session's
\* received messages: json.loads, then on_message is awaited, or json.loads
\* raises.
Recv ==
    /\ spc = "recv"
    /\ inbox[sws] # <<>>
    /\ recording => Len(recvLog) < MaxMsgs
    /\ LET m == [id |-> Len(recvLog) + 1, valid |-> Head(inbox[sws])]
       IN  /\ inbox' = [inbox EXCEPT ![sws] = Tail(@)]
           /\ recvLog' = Rec(recvLog, Append(recvLog, m))
           /\ IF m.valid
              THEN /\ delivered' = Rec(delivered, Deliver(delivered, m.id))
                   /\ Becomes([Here EXCEPT !.spc = "on_message"])
              ELSE /\ UNCHANGED delivered
                   /\ Becomes(Handle(Here, "JSONDecodeError", m.id))
    /\ UNCHANGED <<on_error, symbols, cpc, cop, carg, cws, recording, scope>>
    /\ UNCHANGED <<sentCtl, nops, callLog, nstarts, stopAt, stopConns, dials>>

\* recv raises ConnectionClosed: nothing is left to receive on a connection
\* that the peer or close() has closed.
RecvClosed ==
    /\ spc = "recv"
    /\ inbox[sws] = <<>>
    /\ conn[sws] # "open"
    /\ Becomes(Handle(Here, "ConnectionClosed", 0))
    /\ UNCHANGED <<inbox, on_error, symbols, cpc, cop, carg, cws, recording, scope>>
    /\ UNCHANGED <<recvLog, delivered, sentCtl, nops, callLog, nstarts, stopAt, stopConns, dials>>

OnMessageReturns ==
    /\ spc = "on_message"
    /\ Becomes(LoopCheck(Here))
    /\ UNCHANGED <<inbox, on_error, symbols, cpc, cop, carg, cws, recording, scope>>
    /\ UNCHANGED <<recvLog, delivered, sentCtl, nops, callLog, nstarts, stopAt, stopConns, dials>>

OnMessageRaises ==
    /\ spc = "on_message"
    /\ Becomes(Handle(Here, "CallbackError", Current))
    /\ UNCHANGED <<inbox, on_error, symbols, cpc, cop, carg, cws, recording, scope>>
    /\ UNCHANGED <<recvLog, delivered, sentCtl, nops, callLog, nstarts, stopAt, stopConns, dials>>

OnErrorReturns ==
    /\ spc = "on_error"
    /\ Becomes(AfterOnError(Here))
    /\ UNCHANGED <<inbox, on_error, symbols, cpc, cop, carg, cws, recording, scope>>
    /\ UNCHANGED <<recvLog, delivered, sentCtl, nops, callLog, nstarts, stopAt, stopConns, dials>>

\* on_error raises inside the except clause: the exception leaves the loop
\* and the try through finally.
OnErrorRaises ==
    /\ spc = "on_error"
    /\ Becomes(Finally(Here, "CallbackError"))
    /\ UNCHANGED <<inbox, on_error, symbols, cpc, cop, carg, cws, recording, scope>>
    /\ UNCHANGED <<recvLog, delivered, sentCtl, nops, callLog, nstarts, stopAt, stopConns, dials>>

\* ------------------------------------------------------------ the remote side

\* A message arrives on the open connection the loop reads: JSON text or not.
\* (What arrives on a connection before the loop reads it is the same to the
\* loop as if it arrived later.)  One message can wait while the loop is busy.
Arrive(c, valid) ==
    /\ conn[c] = "open"
    /\ spc \in {"recv", "on_message", "on_error"}
    /\ sws = c
    /\ inbox[c] = <<>>
    /\ recording => Len(recvLog) + Len(inbox[c]) < MaxMsgs
    /\ inbox' = [inbox EXCEPT ![c] = Append(@, valid)]
    /\ UNCHANGED <<ws, running, conn, spc, sws, on_error, symbols, outcome, cpc, cop, carg, cws, recording, scope>>
    /\ UNCHANGED <<recvLog, delivered, errors, sentCtl, nops, callLog, nstarts, stopAt, stopConns, dials>>

\* The peer closes the connection.
PeerClose(c) ==
    /\ conn[c] = "open"
    /\ conn' = [conn EXCEPT ![c] = "peer_closed"]
    /\ UNCHANGED <<ws, running, inbox, spc, sws, on_error, symbols, outcome, cpc, cop, carg, cws, recording, scope>>
    /\ UNCHANGED wshist

\* ------------------------------------------------------------ the other task
\* It runs only while start_websocket is at an await.

\* The other task is between calls and may make one more.
MayCall(op, arg) ==
    /\ cpc = "idle"
    /\ spc # "spin"
    /\ recording => nops < scope.ops
    /\ nops' = Rec(nops, nops + 1)
    /\ callLog' = IF scope.log THEN Rec(callLog, Append(callLog, [op |-> op, arg |-> arg]))
                   ELSE callLog

\* close_websocket(), up to its await.
CloseWebsocket ==
    /\ MayCall("close_websocket", NoArg)
    /\ running' = FALSE
    /\ IF ws # NoConn
       THEN /\ conn' = [conn EXCEPT ![ws] = "closed"]
            /\ cws' = ws
            /\ cpc' = "closing"
            /\ cop' = "close_websocket"
            /\ UNCHANGED carg
       ELSE UNCHANGED <<conn, cws, cpc, cop, carg>>
    /\ stopAt' = Rec(stopAt, IF InSession /\ stopAt = Never THEN Len(delivered) ELSE stopAt)
    /\ stopConns' = Rec(stopConns, IF InLoop /\ stopConns = Never THEN Opened ELSE stopConns)
    /\ UNCHANGED <<ws, inbox, spc, sws, on_error, symbols, outcome, recording, scope>>
    /\ UNCHANGED <<recvLog, delivered, errors, sentCtl, nstarts, dials>>

\* connect_websocket(): returns at once if self.ws is set.
ConnectWebsocket ==
    /\ MayCall("connect_websocket", NoArg)
    /\ IF ws # NoConn
       THEN UNCHANGED <<cpc, cop>>
       ELSE cpc' = "connecting" /\ cop' = "connect_websocket"
    /\ UNCHANGED carg
    /\ UNCHANGED <<ws, running, conn, inbox, spc, sws, on_error, symbols, outcome, cws, recording, scope>>
    /\ UNCHANGED <<recvLog, delivered, errors, sentCtl, nstarts, stopAt, stopConns, dials>>

\* subscribe(symbols): connects first if self.ws is not set, then sends.
Subscribe(s) ==
    /\ MayCall("subscribe", s)
    /\ cop' = "subscribe"
    /\ carg' = s
    /\ IF ws # NoConn
       THEN cpc' = "sending" /\ cws' = ws
       ELSE cpc' = "connecting" /\ UNCHANGED cws
    /\ UNCHANGED <<ws, running, conn, inbox, spc, sws, on_error, symbols, outcome, recording, scope>>
    /\ UNCHANGED <<recvLog, delivered, errors, sentCtl, nstarts, stopAt, stopConns, dials>>

\* unsubscribe(symbols): returns at once if self.ws is not set.
Unsubscribe(s) ==
    /\ MayCall("unsubscribe", s)
    /\ IF ws # NoConn
       THEN cpc' = "sending" /\ cws' = ws /\ cop' = "unsubscribe" /\ carg' = s
       ELSE UNCHANGED <<cpc, cop, carg, cws>>
    /\ UNCHANGED <<ws, running, conn, inbox, spc, sws, on_error, symbols, outcome, recording, scope>>
    /\ UNCHANGED <<recvLog, delivered, errors, sentCtl, nstarts, stopAt, stopConns, dials>>

\* websockets.connect returns to connect_websocket: self.ws = ...,
\* self._running = True; subscribe goes on to send.
Connected ==
    /\ cpc = "connecting"
    /\ spc # "spin"
    /\ CanOpen
    /\ conn' = [conn EXCEPT ![Fresh] = "open"]
    /\ ws' = Fresh
    /\ running' = TRUE
    /\ IF cop = "subscribe"
       THEN cpc' = "sending" /\ cws' = Fresh /\ UNCHANGED <<cop, carg>>
       ELSE cpc' = "idle" /\ cop' = NoOne /\ carg' = NoArg /\ UNCHANGED cws
    /\ UNCHANGED <<inbox, spc, sws, on_error, symbols, outcome, recording, scope, wshist>>

\* websockets.connect raises to the caller.
ConnectFailed ==
    /\ cpc = "connecting"
    /\ spc # "spin"
    /\ cpc' = "idle"
    /\ cop' = NoOne
    /\ carg' = NoArg
    /\ UNCHANGED <<ws, running, conn, inbox, spc, sws, on_error, symbols, outcome, cws, recording, scope, wshist>>

\* The control message of subscribe or unsubscribe is sent.
Sent ==
    /\ cpc = "sending"
    /\ spc # "spin"
    /\ conn[cws] = "open"
    /\ sentCtl' = Rec(sentCtl, Append(sentCtl, [by |-> "other", conn |-> cws, arg |-> carg,
                                                msg |-> ControlMessage(cop, carg)]))
    /\ cpc' = "idle"
    /\ cop' = NoOne
    /\ carg' = NoArg
    /\ cws' = NoConn
    /\ UNCHANGED <<ws, running, conn, inbox, spc, sws, on_error, symbols, outcome, recording, scope>>
    /\ UNCHANGED <<recvLog, delivered, errors, nops, callLog, nstarts, stopAt, stopConns, dials>>

\* send raises ConnectionClosed to the caller.
SendFailed ==
    /\ cpc = "sending"
    /\ spc # "spin"
    /\ conn[cws] # "open"
    /\ cpc' = "idle"
    /\ cop' = NoOne
    /\ carg' = NoArg
    /\ cws' = NoConn
    /\ UNCHANGED <<ws, running, conn, inbox, spc, sws, on_error, symbols, outcome, recording, scope, wshist>>

\* await self.ws.close() returns to start_websocket's finally clause:
\* self.ws = None, and start_websocket is over.
StartClosed ==
    /\ spc = "closing"
    /\ ws' = NoConn
    /\ spc' = "done"
    /\ sws' = NoConn
    /\ UNCHANGED <<running, conn, inbox, on_error, symbols, outcome, cpc, cop, carg, cws,
                   recording, scope, wshist>>

\* await self.ws.close() returns to the other task's close_websocket:
\* self.ws = None.
Closed ==
    /\ cpc = "closing"
    /\ spc # "spin"
    /\ ws' = NoConn
    /\ cpc' = "idle"
    /\ cop' = NoOne
    /\ carg' = NoArg
    /\ cws' = NoConn
    /\ UNCHANGED <<running, conn, inbox, spc, sws, on_error, symbols, outcome,
                   recording, scope, wshist>>

StartStep ==
    \/ StartConnected
    \/ StartConnectFailed
    \/ StartSent
    \/ StartSendFailed
    \/ Recv
    \/ RecvClosed
    \/ OnMessageReturns
    \/ OnMessageRaises
    \/ OnErrorReturns
    \/ OnErrorRaises
    \/ StartClosed

\* The steps start_websocket takes when it can: every step of its own except
\* a callback raising, which is up to the callback.
StartProgress ==
    \/ StartConnected
    \/ StartConnectFailed
    \/ StartSent
    \/ StartSendFailed
    \/ Recv
    \/ RecvClosed
    \/ OnMessageReturns
    \/ OnErrorReturns
    \/ StartClosed

WsNext ==
    \/ \E s \in scope.args : \E h \in BOOLEAN : StartWebsocket(s, h) /\ UNCHANGED limvars
    \/ StartConnected /\ UNCHANGED limvars
    \/ StartConnectFailed /\ UNCHANGED limvars
    \/ StartSent /\ UNCHANGED limvars
    \/ StartSendFailed /\ UNCHANGED limvars
    \/ Recv /\ UNCHANGED limvars
    \/ RecvClosed /\ UNCHANGED limvars
    \/ OnMessageReturns /\ UNCHANGED limvars
    \/ OnMessageRaises /\ UNCHANGED limvars
    \/ OnErrorReturns /\ UNCHANGED limvars
    \/ OnErrorRaises /\ UNCHANGED limvars
    \/ StartClosed /\ UNCHANGED limvars
    \/ Closed /\ UNCHANGED limvars
    \/ \E c \in Conns : \E valid \in BOOLEAN : Arrive(c, valid) /\ UNCHANGED limvars
    \/ \E c \in Conns : PeerClose(c) /\ UNCHANGED limvars
    \/ CloseWebsocket /\ UNCHANGED limvars
    \/ ConnectWebsocket /\ UNCHANGED limvars
    \/ \E s \in scope.args : Subscribe(s) /\ UNCHANGED limvars
    \/ \E s \in scope.args : Unsubscribe(s) /\ UNCHANGED limvars
    \/ Connected /\ UNCHANGED limvars
    \/ ConnectFailed /\ UNCHANGED limvars
    \/ Sent /\ UNCHANGED limvars
    \/ SendFailed /\ UNCHANGED limvars

WsSpec == WsInit /\ [][WsNext]_vars

\* Long runs of the session, without history: messages may arrive and calls be
\* made for ever.  The event loop runs every task that is ready, so the steps
\* of start_websocket are taken when they can be, a callback that is awaited
\* ends, and whether it ends by raising is up to it; what the remote side and
\* the other task do is up to them.  Where the loop goes round without a
\* change of state (on_error returning while self.ws is None), it may do so
\* for ever.
WsLiveInit ==
    /\ LimiterInit
    /\ client = [t \in Callers |-> "AlphaVantageClient"]
    /\ SessionInit
    /\ recording = FALSE
    /\ scope = FewCalls

WsLiveSpec ==
    /\ WsLiveInit
    /\ [][WsNext]_vars
    /\ WF_vars(StartProgress /\ UNCHANGED limvars)

\* The same long runs with no other task: start_websocket and the remote side.
AloneNext ==
    \/ \E s \in scope.args : \E h \in BOOLEAN : StartWebsocket(s, h) /\ UNCHANGED limvars
    \/ StartStep /\ UNCHANGED limvars
    \/ \E c \in Conns : \E valid \in BOOLEAN : Arrive(c, valid) /\ UNCHANGED limvars
    \/ \E c \in Conns : PeerClose(c) /\ UNCHANGED limvars

AloneLiveSpec ==
    /\ WsLiveInit
    /\ [][AloneNext]_vars
    /\ WF_vars(StartProgress /\ UNCHANGED limvars)

\* The session seen from its control messages: the callers choose among Args,
\* the other task makes SubOps calls, which are logged, and the server sends
\* nothing and keeps its connections open.
Many == [args |-> Args, ops |-> SubOps, log |-> TRUE]

ControlInit ==
    /\ LimiterInit
    /\ client = [t \in Callers |-> "AlphaVantageClient"]
    /\ SessionInit
    /\ recording = TRUE
    /\ scope = Many

ControlNext ==
    \/ \E s \in scope.args : \E h \in BOOLEAN : StartWebsocket(s, h) /\ UNCHANGED limvars
    \/ StartConnected /\ UNCHANGED limvars
    \/ StartConnectFailed /\ UNCHANGED limvars
    \/ StartSent /\ UNCHANGED limvars
    \/ StartSendFailed /\ UNCHANGED limvars
    \/ RecvClosed /\ UNCHANGED limvars
    \/ OnErrorReturns /\ UNCHANGED limvars
    \/ OnErrorRaises /\ UNCHANGED limvars
    \/ StartClosed /\ UNCHANGED limvars
    \/ Closed /\ UNCHANGED limvars
    \/ CloseWebsocket /\ UNCHANGED limvars
    \/ ConnectWebsocket /\ UNCHANGED limvars
    \/ \E s \in scope.args : Subscribe(s) /\ UNCHANGED limvars
    \/ \E s \in scope.args : Unsubscribe(s) /\ UNCHANGED limvars
    \/ Connected /\ UNCHANGED limvars
    \/ ConnectFailed /\ UNCHANGED limvars
    \/ Sent /\ UNCHANGED limvars
    \/ SendFailed /\ UNCHANGED limvars

ControlSpec == ControlInit /\ [][ControlNext]_vars

\* The session seen from its connection: the other task makes LifeOps calls of
\* connect_websocket and close_websocket, and the server sends nothing and
\* keeps its connections open.
Reconnecting == [args |-> {ListArg(<<Ticker1, Ticker2>>)}, ops |-> LifeOps, log |-> FALSE]

LifecycleInit ==
    /\ LimiterInit
    /\ client = [t \in Callers |-> "AlphaVantageClient"]
    /\ SessionInit
    /\ recording = TRUE
    /\ scope = Reconnecting

LifecycleNext ==
    \/ \E s \in scope.args : \E h \in BOOLEAN : StartWebsocket(s, h) /\ UNCHANGED limvars
    \/ StartConnected /\ UNCHANGED limvars
    \/ StartConnectFailed /\ UNCHANGED limvars
    \/ StartSent /\ UNCHANGED limvars
    \/ StartSendFailed /\ UNCHANGED limvars
    \/ RecvClosed /\ UNCHANGED limvars
    \/ OnErrorReturns /\ UNCHANGED limvars
    \/ OnErrorRaises /\ UNCHANGED limvars
    \/ StartClosed /\ UNCHANGED limvars
    \/ Closed /\ UNCHANGED limvars
    \/ CloseWebsocket /\ UNCHANGED limvars
    \/ ConnectWebsocket /\ UNCHANGED limvars
    \/ Connected /\ UNCHANGED limvars
    \/ ConnectFailed /\ UNCHANGED limvars

LifecycleSpec == LifecycleInit /\ [][LifecycleNext]_vars

\* ----------------------------------------------------------------- claims

Granted == DOMAIN grantLog

\* The grants of client c whose time lies in [start, start + length).
GrantsIn(c, start, length) ==
    {i \in Granted : /\ grantLog[i].client = c
                     /\ grantLog[i].time >= start
                     /\ grantLog[i].time < start + length}

\* The grants made in limiter window w (the window that began at last_reset = w).
GrantsOfWindow(w) == {i \in Granted : grantLog[i].window = w}

CeilDiv(a, b) == (a + b - 1) \div b

\* The callers that are inside the limiter, waiting for a slot.
Waiting == {t \in Callers : pc[t] \in {"acquire", "locked", "sleeping"}}

\* C1: for each provider, the requests issued in any rolling window of one
\* period (any start time, the first window after the limiter's creation
\* included) never exceed the maximum number of calls per window.
C1_RollingWindow ==
    \A c \in Clients : \A start \in 0..now :
        Cardinality(GrantsIn(c, start, PeriodTicks)) <= clamped_calls

\* C2: with concurrent callers slot reservation is serialized: no slot of a
\* limiter window is granted twice, every granted call of the current window
\* is counted in num_calls, and no window grants more than the maximum.
C2_SlotsSerialized ==
    /\ \A i, j \in Granted :
          (i # j /\ grantLog[i].window = grantLog[j].window)
              => grantLog[i].slot # grantLog[j].slot
    /\ \A i \in Granted :
          Cardinality(GrantsOfWindow(grantLog[i].window)) <= clamped_calls
    /\ Cardinality(GrantsOfWindow(last_reset)) <= num_calls

\* Two callers of the same client met in one window: one holds the window's
\* slot, the other was refused and sleeps.
C2_Witness ==
    \E t, u \in Callers :
        /\ t # u /\ client[t] = client[u]
        /\ pc[t] = "sleeping" /\ pc[u] = "transport"
        /\ \E i \in Granted : grantLog[i].caller = u /\ grantLog[i].window = deniedIn[t]

\* C3: no request method reaches the transport call without having acquired
\* a rate-limit slot in the same invocation.
C3_LimiterBeforeTransport ==
    \A t \in Callers :
        pc[t] = "transport" =>
            \E i \in Granted : grantLog[i].caller = t /\ grantLog[i].call = ncalls[t]

\* C4: rate limiting is keyed by provider: a caller is made to wait only by
\* slots granted to its own provider's client.
C4_KeyedByProvider ==
    \A t \in Callers :
        pc[t] = "sleeping" =>
            \A i \in GrantsOfWindow(deniedIn[t]) : grantLog[i].client = client[t]

\* C5: a client constructed with calls_per_minute = c never issues more than
\* c requests through _make_request within any one-minute window.
C5_CallsPerMinute ==
    \A c \in Clients : \A start \in 0..now :
        Cardinality(GrantsIn(c, start, MinuteTicks)) <= calls_per_minute(c)

\* C6: every caller that asks the limiter for a slot is eventually granted
\* one, however many callers wait on the same provider: no caller is starved.
C6_EventuallyGranted ==
    \A t \in Callers : (pc[t] = "acquire") ~> (pc[t] = "transport")

\* C7: N <= maxCallsPerWindow calls in one rate-limit window are not delayed:
\* a call is made to sleep only in a window that has already granted its
\* maximum number of calls.
C7_NoDelayWithinMax ==
    \A t \in Callers :
        deniedIn[t] # Never =>
            Cardinality(GrantsOfWindow(deniedIn[t])) >= clamped_calls

\* A window later than the first served its call at once while, in another
\* window, a caller had been refused.
C7_Witness ==
    /\ \E i \in Granted : i > 1 /\ ~grantLog[i].delayed /\ grantLog[i].slot <= clamped_calls
    /\ \E j \in Granted : grantLog[j].delayed

\* C8 as stated: of N > maxCallsPerWindow calls, at least
\* ceil((N - max) / max) window boundaries are crossed before the (max+1)-th
\* call is granted.
C8_BoundariesBeforeNextCall ==
    LET N == Len(grantLog) + Cardinality(Waiting) IN
    (N > clamped_calls /\ Len(grantLog) >= clamped_calls + 1)
        => grantLog[clamped_calls + 1].resets >= CeilDiv(N - clamped_calls, clamped_calls)

\* C8 as amended: at least ceil((N - max) / max) window boundaries are
\* crossed before the N-th call is granted, for every N > max.
C8_BoundariesBeforeNthCall ==
    \A n \in Granted :
        n > clamped_calls
            => grantLog[n].resets >= CeilDiv(n - clamped_calls, clamped_calls)

\* Three calls have been granted, the third after at least two resets.
C8_Witness == Len(grantLog) >= 3 /\ grantLog[3].resets >= 2

\* C9: k calls issued back to back, from any start instant, against an
\* always-200 transport: the k-th call is granted at least (k - 1) window
\* durations after the start of the first call.
C9_BackToBack ==
    \A k \in Granted :
        grantLog[k].time - firstStart >= (k - 1) * PeriodTicks

\* C10: a response whose status is not 2xx is reported to the caller as an
\* HTTP status failure, never as a successful payload.
C10_NonSuccessIsHttpStatus ==
    \A t \in Callers :
        (/\ pc[t] = "returned"
         /\ result[t].kind # "ConnectionError"
         /\ ~(result[t].status >= 200 /\ result[t].status < 300))
            => result[t].kind = "HTTPError"

Failures == {"ConnectionError", "HTTPError", "JSONDecodeError", "csv.Error"}

\* C11: whenever the transport call of a request failed, or _make_request got
\* a body that is not JSON, or a CSV method a body csv cannot read, what
\* reaches the caller is a failure (an exception), never a returned value.
C11_FailuresSurface ==
    \A t \in Callers :
        pc[t] = "returned" =>
            /\ result[t].status = ConnectionError.status
                    => result[t].kind = "ConnectionError"
            /\ (UsesMakeRequest(method[t]) /\ ~IsJson(result[t].body))
                    => result[t].kind \in Failures
            /\ (~UsesMakeRequest(method[t]) /\ ~CsvReads(result[t].body))
                    => result[t].kind \in Failures

\* One _make_request call has ended on a failed transport call, another on a
\* 200 response whose body is not JSON.
C11_Witness ==
    \E t, u \in Callers :
        /\ pc[t] = "returned" /\ UsesMakeRequest(method[t])
        /\ result[t].status = ConnectionError.status
        /\ pc[u] = "returned" /\ UsesMakeRequest(method[u])
        /\ result[u].status = Ok200.status /\ result[u].body = "text"

\* C12: one call makes at most one transport call, whatever the transport
\* answered and however long the call waited for a slot; a call that has its
\* outcome made exactly one, and left the client it was made on as it was.
C12_OneTransportCall ==
    \A t \in Callers :
        /\ sent[t] <= 1
        /\ pc[t] = "returned" => sent[t] = 1
        /\ pc[t] \in {"acquire", "locked", "sleeping", "transport"} => sent[t] = 0

\* A call that had to sleep for its slot has ended on a failed transport call,
\* and another on a 500 response.
C12_Witness ==
    \E t, u \in Callers :
        /\ pc[t] = "returned" /\ result[t].kind = "ConnectionError"
        /\ \E i \in Granted : /\ grantLog[i].caller = t
                               /\ grantLog[i].call = ncalls[t]
                               /\ grantLog[i].delayed
        /\ pc[u] = "returned" /\ result[u].kind = "HTTPError"

\* C13: a request whose transport call has been issued eventually ends, with
\* a value or a failure, also when the transport never answers.
C13_RequestTerminates ==
    \A t \in Callers : (pc[t] = "transport") ~> (pc[t] = "returned")

\* The session is over and torn down.
Disconnected == ws = NoConn /\ ~running

\* C14: once the peer has closed the connection the receive loop is reading,
\* with an on_error registered, the session is eventually torn down: start_websocket is over, self.ws is
\* None and self._running is False.
C14_PeerCloseTearsDown ==
    (on_error /\ spc = "recv" /\ conn[sws] = "peer_closed")
        ~> (spc = "done" /\ Disconnected)

\* C15: for one close of a connection by the peer, on_error is called with the
\* closed-connection failure at most once.
C15_OneErrorPerClose ==
    \A c \in Conns :
        conn[c] = "peer_closed" =>
            Cardinality({i \in DOMAIN errors : /\ errors[i].kind = "ConnectionClosed"
                                               /\ errors[i].conn = c
                                               /\ errors[i].to = "on_error"}) <= 1

\* How many times an exception of this kind, caught for this message, went
\* this way.
Reported(kind, id, to) ==
    Cardinality({i \in DOMAIN errors : /\ errors[i].kind = kind
                                       /\ errors[i].msg = id
                                       /\ errors[i].to = to})

\* How many times on_message was called with this message.
DeliveredTimes(id) == Cardinality({i \in DOMAIN delivered : delivered[i] = id})

\* C16: with an on_error registered, a message that is not JSON is reported to
\* on_error exactly once and never passed to on_message; every JSON message the
\* loop receives, before or after it, is passed to on_message; and the decoding
\* failure does not end the loop: start_websocket never raises it, and returns
\* only if close_websocket was called.
C16_MalformedIsolated ==
    on_error =>
        /\ \A i \in DOMAIN recvLog :
              IF recvLog[i].valid
              THEN DeliveredTimes(recvLog[i].id) = 1
              ELSE /\ Reported("JSONDecodeError", recvLog[i].id, "on_error") = 1
                   /\ DeliveredTimes(recvLog[i].id) = 0
        /\ outcome # "JSONDecodeError"
        /\ outcome = "returned" => stopAt # Never

\* A message that is not JSON was received, on_error has returned, and a JSON
\* message received after it was passed to on_message.
C16_Witness ==
    /\ on_error
    /\ \E i, j \in DOMAIN recvLog :
          /\ i < j
          /\ ~recvLog[i].valid
          /\ recvLog[j].valid
          /\ DeliveredTimes(recvLog[j].id) = 1

\* The exceptions a single message can cause: json.loads or on_message raising.
MessageFailures == {"JSONDecodeError", "CallbackError"}

\* C17: start_websocket never ends because of a failed message, whatever the
\* callbacks do: it is never over, by an exception, with a message's failure
\* the last thing its loop caught.
C17_FailedMessageNeverEnds ==
    ~ /\ spc \in {"closing", "done"}
      /\ outcome \notin {"none", "returned"}
      /\ errors # <<>>
      /\ errors[Len(errors)].kind \in MessageFailures

\* The JSON messages the loop received, in the order recv returned them.
ValidReceived == SelectSeq(recvLog, LAMBDA m : m.valid)

\* C18: on_message is called with the decoded messages in the order they were
\* received, each once, and every received message has been passed on or
\* reported before the next is received.
C18_InOrderOnce ==
    /\ delivered = [i \in 1 .. Len(ValidReceived) |-> ValidReceived[i].id]
    /\ \A i, j \in DOMAIN delivered : i < j => delivered[i] # delivered[j]
    /\ Len(recvLog) - Len(delivered) - Len(SelectSeq(recvLog, LAMBDA m : ~m.valid)) <= 1

\* Two messages were passed to on_message.
C18_Witness == Len(delivered) >= MaxMsgs /\ spc = "on_message"

\* C19: after close_websocket was called during a start_websocket call, the
\* loop passes at most one more message to on_message.
C19_AtMostOneAfterStop ==
    stopAt # Never => Len(delivered) - stopAt <= 1

\* C20: when websockets.connect fails in start_websocket, the call ends with
\* that exception, having sent no subscribe message, called no callback and
\* called websockets.connect once, and leaves self.ws None and self._running
\* False.
C20_ConnectFailureLeavesDisconnected ==
    [][(spc # "done" /\ spc' = "done" /\ outcome' = "ConnectError") =>
            /\ ws' = NoConn
            /\ ~running'
            /\ \A i \in DOMAIN sentCtl' : sentCtl'[i].by # "start"
            /\ delivered' = <<>>
            /\ errors' = <<>>
            /\ dials' = 1]_vars



\* C26: at most one streaming connection is open at any time and none leaks:
\* every connection that is open is the one self.ws references.
C26_OneOpenConnection == \A c \in Conns : conn[c] = "open" => ws = c

\* C29: at every await point, _running is True only if ws is not None.
C29_RunningImpliesConnected == running => ws # NoConn

\* C28: whenever start_websocket returns or raises, the session has been torn
\* down: ws is None and _running is False.
C28_TornDownOnReturn ==
    [][(spc # "done" /\ spc' = "done") => (ws' = NoConn /\ ~running')]_vars

\* The control messages start_websocket has sent in its current call.
StartSends == SelectSeq(sentCtl, LAMBDA e : e.by = "start")

\* C21: start_websocket called with a non-empty symbol set sends exactly one
\* subscribe message, naming all and only those symbols, once the connection
\* is there and before it receives the first inbound message.
C21_SubscribeOnConnect ==
    /\ spc \in {"connecting", "sending"} => StartSends = <<>> /\ recvLog = <<>>
    /\ ((InLoop \/ recvLog # <<>>) /\ Normalize(symbols) # <<>>) =>
           /\ Len(StartSends) = 1
           /\ StartSends[1].msg.action = "subscribe"
           /\ SymbolsOf(StartSends[1].msg) = Range(Normalize(symbols))

C21_Witness ==
    /\ InLoop
    /\ recvLog # <<>>
    /\ Len(StartSends) = 1
    /\ SymbolsOf(StartSends[1].msg) = {Ticker1, Ticker2}

\* The list of symbols a caller gives: a single symbol given as a string
\* stands for the list of that one symbol.
Given(arg) == IF arg.kind = "str" THEN <<arg.str>> ELSE arg.list

\* C22: a call of subscribe or unsubscribe made while the session is connected
\* goes straight to the send on the open connection, and the send puts exactly
\* one control message on it: the action called, and the given symbols joined
\* by commas in the given order.
C22_OneControlMessagePerCall ==
    [][/\ (cpc = "idle" /\ cpc' # "idle" /\ ws # NoConn /\ cop' \in {"subscribe", "unsubscribe"}) =>
            (cpc' = "sending" /\ cws' = ws /\ sentCtl' = sentCtl)
       /\ (cpc = "sending" /\ cpc' = "idle" /\ conn[cws] = "open") =>
            /\ Len(sentCtl') = Len(sentCtl) + 1
            /\ SubSeq(sentCtl', 1, Len(sentCtl)) = sentCtl
            /\ LET m == sentCtl'[Len(sentCtl')].msg
                   where == sentCtl'[Len(sentCtl')].conn
               IN  /\ where = cws
                   /\ DOMAIN m = {"action", "params"}
                   /\ DOMAIN m.params = {"symbols"}
                   /\ m.action = cop
                   /\ cop \in {"subscribe", "unsubscribe"}
                   /\ IF Given(carg) = <<>>
                      THEN m.params.symbols = <<>>
                      ELSE Split(m.params.symbols) = Given(carg)]_vars

C22_Witness ==
    /\ \E i \in DOMAIN sentCtl : /\ sentCtl[i].by = "other"
                                  /\ sentCtl[i].arg = StrArg(Ticker1)
                                  /\ sentCtl[i].msg.action = "subscribe"
    /\ \E i \in DOMAIN sentCtl : /\ sentCtl[i].by = "other"
                                  /\ sentCtl[i].arg = ListArg(<<Ticker1, Ticker2>>)
                                  /\ sentCtl[i].msg.action = "unsubscribe"

\* C27: given an empty list, start_websocket or subscribe sends no subscribe
\* control message.
C27_NoSubscribeForEmpty ==
    \A i \in DOMAIN sentCtl :
        sentCtl[i].msg.action = "subscribe" => Given(sentCtl[i].arg) # <<>>

\* C23: subscribe or unsubscribe called while not connected opens no
\* connection and sends no control message (seen on the first call made on a
\* client that was never connected).
C23_NothingSentWhileDisconnected ==
    (/\ nstarts = 0
     /\ Len(callLog) = 1
     /\ callLog[1].op \in {"subscribe", "unsubscribe"}) =>
        (Opened = 0 /\ sentCtl = <<>>)

\* C25: subscribe(A) followed by unsubscribe(B), the only calls made on a new
\* client, leave the symbols of A minus B subscribed. The client keeps no set
\* of symbols, so a symbol is subscribed only through a subscribe message that
\* names it: for every symbol of A minus B such a message has been sent.
C25_SubscribeThenUnsubscribe ==
    (/\ nstarts = 0
     /\ cpc = "idle"
     /\ Len(callLog) = 2
     /\ callLog[1].op = "subscribe"
     /\ callLog[2].op = "unsubscribe") =>
        \A s \in Range(Given(callLog[1].arg)) \ Range(Given(callLog[2].arg)) :
            \E i \in DOMAIN sentCtl : /\ sentCtl[i].msg.action = "subscribe"
                                      /\ s \in SymbolsOf(sentCtl[i].msg)

\* C30: once close_websocket has been called while the receive loop is
\* running, the loop never receives from a connection opened afterwards.
C30_StoppedLoopStaysStopped ==
    ~(stopConns # Never /\ spc = "recv" /\ sws > stopConns)

====
